---- MODULE Spec2Model ----
(***************************************************************************)
(* Workflow orchestration core of the CRM: the Job status state machine,   *)
(* the allocation engine (allocator/views.py), the AI-summary gate         *)
(* (marketing/views.py), the writer and process handlers and the           *)
(* self-healing pass of completed_jobs_allocator.                          *)
(*                                                                         *)
(* The store is a set of collections (jobs, allocs, versions and the two   *)
(* action logs).  Every handler is one action: a request runs from its     *)
(* read of the Job to its last write without interruption.  SpecGate runs  *)
(* the intake handlers, SpecWorkflow the handlers that take a Job from its *)
(* creation through allocation, writing and process to completion.  The    *)
(* two ...Conc specifications split allocate_job and generate_ai_summary   *)
(* at the boundary between the read of the Job (get_object_or_404) and the *)
(* rest of the handler, so that requests overlap; a transaction.atomic()   *)
(* block is one step.                                                      *)
(*                                                                         *)
(* Time is a clock `now` in units of 24 hours.  Only the Job fields that   *)
(* the handlers below read or write are kept.                              *)
(***************************************************************************)
EXTENDS Integers, Sequences, FiniteSets, TLC

\* ---------------------------------------------------------------- bounds
MaxTime == 2
MaxAllocs == 2
MaxJobLog == 7
MaxAllocLog == 3
NumReqs == 2
\* times a saved initial form is saved again
MaxSaves == 1
\* identifiers "CH-XXXXXX" are the numbers 0..IdSpace-1 (the source's timestamp
\* tier counts modulo 1000000)
IdSpace == 3
\* attempts of the random tier (the source's default is 100)
max_retries == 2
\* attempts of the timestamp tier (the source's range(100))
TimestampTries == 2

\* ------------------------------------------------------------- constants
\* timedelta(hours=24) of the finalize guard, in clock units
MIN_STRICT_LEAD == 1
\* Job.can_regenerate_summary: ai_summary_version < 3
MAX_SUMMARY_VERSIONS == 3

Jobs == {"J1"}
Writers == {"w1", "w2"}
ProcessMembers == {"p1"}
Users == Writers \cup ProcessMembers
NoUser == "nobody"
NoJob == "none"
None == -1
Times == 0..MaxTime

\* Job.STATUS_CHOICES
STATUS_CHOICES ==
  {"draft", "pending", "allocated", "in_progress", "unallocated", "completed",
   "hold", "query", "cancelled", "Review", "In_Review"}

\* JobAllocation.ALLOCATION_STATUS_CHOICES
ALLOCATION_STATUS_CHOICES == {"pending", "active", "completed", "cancelled"}

\* the five fields counted by Job.calculate_degree
required_fields ==
  {"topic", "word_count", "referencing_style", "writing_style", "job_summary"}

VARIABLES
  jobs,                \* marketing_jobs: system_id -> Job document
  allocs,              \* job_allocations, in insertion order
  versions,            \* job_summary_versions, in insertion order
  JobActionLog,        \* job_action_logs: [job, action]
  AllocationActionLog, \* allocation_action_logs: [allocation, action, details]
  now,                 \* timezone.now()
  reqs,                \* requests in flight: slot -> request read so far
  resp,                \* the response of the last finished request
  documents            \* marketing_jobs, the columns under unique=True:
                       \* [system_id, job_id] of every document, in insert order

vars == <<jobs, allocs, versions, JobActionLog, AllocationActionLog, now, reqs, resp,
          documents>>
store == <<jobs, allocs, versions, JobActionLog, AllocationActionLog>>

\* ------------------------------------------------------------ documents
\* Job() before it is inserted: the field defaults of marketing.models.Job
NewJob ==
  [exists |-> FALSE, status |-> "draft", job_creation_method |-> "ai_summary",
   allocated_to |-> NoUser, allocated_to_process |-> NoUser,
   expected_deadline |-> None, ai_summary_version |-> 0, summary |-> {},
   job_card_degree |-> 5, ai_summary_accepted_at |-> None,
   structure_submitted |-> FALSE, final_copy_submitted |-> FALSE,
   writer_selected_at |-> None,
   \* writer_submissions of type 'final_copy' of the Job: their submitted_by
   final_copy_by |-> {}]

NoRequest == [op |-> "idle"]
\* what the last finished request answered
Response(op, j, result) == [op |-> op, job |-> j, result |-> result]

Init ==
  /\ jobs = [j \in Jobs |-> NewJob]
  /\ allocs = << >>
  /\ versions = << >>
  /\ JobActionLog = << >>
  /\ AllocationActionLog = << >>
  /\ now = 0
  /\ reqs = [r \in 1..NumReqs |-> NoRequest]
  /\ resp = Response("none", NoJob, "ok")
  /\ documents = << >>

\* JobAllocation.objects.filter(marketing_job=j, allocation_type=t, status='active')
ActiveAllocations(as, j, t) ==
  {i \in DOMAIN as : as[i].marketing_job = j /\ as[i].allocation_type = t
                     /\ as[i].status = "active"}

\* JobAllocation.objects.filter(marketing_job=j, allocated_to=u, allocation_type=t)
AllocationsOf(j, u, t) ==
  {i \in DOMAIN allocs : allocs[i].marketing_job = j /\ allocs[i].allocated_to = u
                         /\ allocs[i].allocation_type = t}

\* CustomUser.role
role(u) == IF u \in Writers THEN "writer" ELSE "process"

JobLogRoom(k) == Len(JobActionLog) + k <= MaxJobLog
AllocLogRoom(k) == Len(AllocationActionLog) + k <= MaxAllocLog

LogJob(j, action) == [job |-> j, action |-> action]
LogAllocation(a, action, details) ==
  [allocation |-> a, action |-> action, details |-> details]

\* JobAllocation.clean, run by JobAllocation.save through full_clean
clean(a, expected_deadline) ==
  /\ ~(a.end_date_time <= a.start_date_time)
  /\ ~(expected_deadline # None /\ a.end_date_time > expected_deadline)

\* ------------------------------------------------------------- allocator
\* allocation type chosen from the status of the Job object the view holds
AllocationType(job) == IF job.status = "Review" THEN "process" ELSE "writer"

\* AllocationErrors without the start_dt < now check
AllocationErrorsPastStart(job, member, start_dt, end_dt) ==
  IF role(member) # AllocationType(job) THEN "member_not_found"
  ELSE IF end_dt <= start_dt THEN "end_not_after_start"
  ELSE IF job.expected_deadline # None /\ end_dt > job.expected_deadline
       THEN "end_after_deadline"
  ELSE "none"

\* the validations of _process_job_allocation before the transaction
AllocationErrors(job, member, start_dt, end_dt) ==
  IF role(member) # AllocationType(job) THEN "member_not_found"
  ELSE IF start_dt < now THEN "start_in_past"
  ELSE IF end_dt <= start_dt THEN "end_not_after_start"
  ELSE IF job.expected_deadline # None /\ end_dt > job.expected_deadline
       THEN "end_after_deadline"
  ELSE "none"

\* AllocatedJob with the pointer write left out: what C5 would see if the
\* transaction set the status only
AllocatedJobStatusOnly(row, type, member) ==
  IF type = "process"
  THEN [row EXCEPT !.status = "process"]
  ELSE [row EXCEPT !.status = "allocated"]

\* the Job row after job.save(update_fields=[...]) of the allocation
\* transaction: only the status and the pointer of the allocation type are written
AllocatedJob(row, type, member) ==
  IF type = "process"
  THEN [row EXCEPT !.status = "process", !.allocated_to_process = member]
  ELSE [row EXCEPT !.status = "allocated", !.allocated_to = member]

\* _process_job_allocation(request, job): job is the object read by allocate_job
_process_job_allocation(j, job, member, start_dt, end_dt) ==
  LET type == AllocationType(job)
      err == AllocationErrors(job, member, start_dt, end_dt)
      allocation == [marketing_job |-> j, allocated_to |-> member,
                     allocation_type |-> type, start_date_time |-> start_dt,
                     end_date_time |-> end_dt, status |-> "active",
                     completed_at |-> None]
  IN IF err # "none" \/ ~clean(allocation, job.expected_deadline)
     THEN /\ resp' = Response("allocate", j, IF err # "none" THEN err ELSE "create_error")
          /\ UNCHANGED store
     ELSE /\ Len(allocs) < MaxAllocs
          /\ AllocLogRoom(1)
          /\ type = "process" => JobLogRoom(1)
          /\ allocs' = Append(allocs, allocation)
          /\ jobs' = [jobs EXCEPT ![j] = AllocatedJob(jobs[j], type, member)]
          /\ AllocationActionLog' =
               Append(AllocationActionLog,
                      LogAllocation(Len(allocs) + 1, "created",
                                    <<member, type, start_dt, end_dt>>))
          /\ JobActionLog' = IF type = "process"
                             THEN Append(JobActionLog, LogJob(j, "allocated"))
                             ELSE JobActionLog
          /\ resp' = Response("allocate", j, "ok")
          /\ UNCHANGED versions

\* allocate_job, POST: read the Job, then process the form
allocate_job(j, member, start_dt, end_dt) ==
  /\ jobs[j].exists
  /\ _process_job_allocation(j, jobs[j], member, start_dt, end_dt)
  /\ UNCHANGED <<now, reqs, documents>>

\* switch_writer, POST
switch_writer(a, new_writer) ==
  /\ a \in DOMAIN allocs
  /\ new_writer \in Writers
  /\ LET j == allocs[a].marketing_job
         old_writer == allocs[a].allocated_to
         changed == [allocs[a] EXCEPT !.allocated_to = new_writer]
     IN /\ clean(changed, jobs[j].expected_deadline)
        /\ AllocLogRoom(1)
        /\ allocs' = [allocs EXCEPT ![a] = changed]
        /\ jobs' = [jobs EXCEPT ![j].allocated_to = new_writer]
        /\ AllocationActionLog' =
             Append(AllocationActionLog,
                    LogAllocation(a, "reassigned", <<old_writer, new_writer>>))
  /\ resp' = Response("switch_writer", allocs[a].marketing_job, "ok")
  /\ UNCHANGED <<versions, JobActionLog, now, reqs, documents>>

\* CloseActive without the status='active' filter
CloseAll(as, js) ==
  [i \in DOMAIN as |->
     IF as[i].marketing_job \in js
     THEN [as[i] EXCEPT !.status = "completed", !.completed_at = now]
     ELSE as[i]]

\* the bulk update shared by the self-heal pass and submit_process_file:
\* filter(marketing_job in js, status='active').update(status='completed', ...)
CloseActive(as, js) ==
  [i \in DOMAIN as |->
     IF as[i].marketing_job \in js /\ as[i].status = "active"
     THEN [as[i] EXCEPT !.status = "completed", !.completed_at = now]
     ELSE as[i]]

\* Job.objects.filter(status='completed').values_list('id', flat=True)
completed_job_ids(js) == {j \in Jobs : js[j].exists /\ js[j].status = "completed"}

\* completed_jobs_allocator without its self-heal block: the list only
completed_jobs_allocator_list_only ==
  /\ resp' = Response("completed_jobs_allocator", NoJob, "ok")
  /\ UNCHANGED <<store, now, reqs, documents>>

\* completed_jobs_allocator: the self-heal pass
completed_jobs_allocator ==
  LET ids == completed_job_ids(jobs)
  IN /\ allocs' = CloseActive(allocs, ids)
     /\ resp' = Response("completed_jobs_allocator", NoJob, "ok")
     /\ UNCHANGED <<jobs, versions, JobActionLog, AllocationActionLog,
                    now, reqs, documents>>

\* ------------------------------------------------------------- marketing
\* the four text fields among the five counted by Job.calculate_degree
text_fields == required_fields \ {"word_count"}

\* values of "word_count" in the Summarizer's JSON: null, a number, a string
WordCountValues ==
  {[kind |-> "null", n |-> 0, text |-> ""],
   [kind |-> "number", n |-> 0, text |-> ""],
   [kind |-> "number", n |-> 1500, text |-> ""],
   [kind |-> "string", n |-> 0, text |-> ""],
   [kind |-> "string", n |-> 0, text |-> "to be confirmed"],
   [kind |-> "string", n |-> 0, text |-> "3500-4000"]}

\* re.findall(r'\d+', str(value)) on the strings above
findall_digits(text) == IF text = "3500-4000" THEN <<3500, 4000>> ELSE << >>

\* max(int(n) for n in numbers)
MaxOf(numbers) ==
  CHOOSE m \in {numbers[i] : i \in DOMAIN numbers} :
    \A i \in DOMAIN numbers : numbers[i] <= m

\* _normalize_word_count
_normalize_word_count(value) ==
  IF value.kind = "null" THEN None
  ELSE IF value.kind = "number" THEN value.n
  ELSE LET numbers == findall_digits(value.text)
       IN IF numbers = << >> THEN None ELSE MaxOf(numbers)

\* the fields of the Job that are truthy after the reply is copied onto it
\* (word_count through _normalize_word_count; `not field` holds for None and 0)
SummaryFields(outcome) ==
  LET word_count == _normalize_word_count(outcome.word_count)
  IN outcome.fields \cup
       (IF word_count # None /\ word_count # 0 THEN {"word_count"} ELSE {})

\* what the Summarizer returns: a failure of the call, a reply that is no
\* JSON, or a JSON reply: the text fields that are non-empty in it and its
\* word_count
SummaryResults ==
  [fields : {text_fields}, word_count : WordCountValues]
  \cup [fields : {{"topic", "job_summary"}},
        word_count : {w \in WordCountValues : w.kind = "null"}]
SummarizerOutcomes ==
  {[kind |-> k, fields |-> {}, word_count |-> [kind |-> "null", n |-> 0, text |-> ""]] :
     k \in {"api_error", "bad_json"}}
  \cup {[kind |-> "json", fields |-> f.fields, word_count |-> f.word_count] :
          f \in SummaryResults}

\* calculate_degree that does not count word_count
calculate_degree_text_only(summary) == Cardinality(text_fields \ summary)

\* Job.calculate_degree
calculate_degree(summary) == Cardinality(required_fields \ summary)

\* can_regenerate_summary with the limit off by one
can_regenerate_summary_inclusive(job) == job.ai_summary_version <= MAX_SUMMARY_VERSIONS

\* Job.can_regenerate_summary
can_regenerate_summary(job) == job.ai_summary_version < MAX_SUMMARY_VERSIONS

\* save_initial_form without system_id: Job.objects.create(status='draft')
save_initial_form(j) ==
  /\ ~jobs[j].exists
  /\ JobLogRoom(1)
  /\ jobs' = [jobs EXCEPT ![j] = [NewJob EXCEPT !.exists = TRUE]]
  /\ JobActionLog' = Append(JobActionLog, LogJob(j, "created"))
  /\ resp' = Response("save_initial_form", j, "ok")
  /\ UNCHANGED <<allocs, versions, AllocationActionLog, now, reqs, documents>>

\* auto_accept of generate_ai_summary: rule 1 (degree 0) or rule 2 (version 3)
AutoAccept(degree, version) == degree = 0 \/ version >= MAX_SUMMARY_VERSIONS

\* AutoRedirect that redirects whenever the summary is auto-accepted
AutoRedirectOnAccept(degree, version) == AutoAccept(degree, version)

\* auto_redirect of generate_ai_summary: rule 1 only
AutoRedirect(degree, version) == degree = 0

\* the JsonResponse of a successful generate_ai_summary
SummaryResponse(j, version, degree, auto_accept, auto_redirect) ==
  [op |-> "generate_ai_summary", job |-> j, result |-> "ok", version |-> version,
   degree |-> degree, auto_accepted |-> auto_accept, auto_redirect |-> auto_redirect]

\* generate_ai_summary after the read of the Job: job is the object read,
\* outcome what the Summarizer call gives
GenerateSummary(j, job, outcome) ==
  IF ~can_regenerate_summary(job)
  THEN resp' = Response("generate_ai_summary", j, "limit") /\ UNCHANGED store
  ELSE IF outcome.kind # "json"
  THEN resp' = Response("generate_ai_summary", j, outcome.kind) /\ UNCHANGED store
  ELSE
    LET version == job.ai_summary_version + 1
        degree == calculate_degree(SummaryFields(outcome))
        auto_accept == AutoAccept(degree, version)
        auto_redirect == AutoRedirect(degree, version)
        generated == [job EXCEPT !.summary = SummaryFields(outcome),
                                 !.ai_summary_version = version,
                                 !.job_card_degree = degree]
        saved == IF auto_accept
                 THEN [generated EXCEPT !.ai_summary_accepted_at = now,
                                        !.status = "pending"]
                 ELSE generated
    IN /\ JobLogRoom(IF auto_accept THEN 2 ELSE 1)
       /\ versions' = Append(versions,
            [job |-> j, version_number |-> version, degree |-> degree])
       /\ JobActionLog' =
            IF auto_accept
            THEN JobActionLog \o <<LogJob(j, "ai_summary_generated"),
                                   LogJob(j, "ai_summary_accepted")>>
            ELSE Append(JobActionLog, LogJob(j, "ai_summary_generated"))
       /\ jobs' = [jobs EXCEPT ![j] = saved]
       /\ resp' = SummaryResponse(j, version, degree, auto_accept, auto_redirect)
       /\ UNCHANGED <<allocs, AllocationActionLog>>

generate_ai_summary(j, outcome) ==
  /\ jobs[j].exists
  /\ GenerateSummary(j, jobs[j], outcome)
  /\ UNCHANGED <<now, reqs, documents>>

\* accept_summary
accept_summary(j) ==
  /\ jobs[j].exists
  /\ JobLogRoom(2)
  /\ jobs' = [jobs EXCEPT ![j] =
       [jobs[j] EXCEPT !.ai_summary_accepted_at = now, !.status = "pending",
                       !.job_creation_method = "ai_summary"]]
  /\ JobActionLog' = JobActionLog \o <<LogJob(j, "ai_summary_accepted"),
                                       LogJob(j, "initial_form_submitted")>>
  /\ resp' = Response("accept_summary", j, "ok")
  /\ UNCHANGED <<allocs, versions, AllocationActionLog, now, reqs, documents>>

\* the POST fields both forms refuse to go without
mandatory_fields ==
  {"category", "level", "word_count", "instruction", "expected_deadline",
   "strict_deadline", "customer_id", "project_group", "amount"}

\* the rows looked up after the errors list: the customer, a project group
\* that is not deleted, the price entry of category and level
lookups == {"Customer", "ProjectGroupMaster", "PriceMaster"}

\* the finalize form: present holds the mandatory fields with a usable value
\* and the rows that are found
FinalForms ==
  {[present |-> {}, expected_dt |-> 0, strict_dt |-> MaxTime]}
  \cup [present : {mandatory_fields \cup lookups}, expected_dt : Times, strict_dt : Times]

\* the forms with at most one field or row missing
DetailedForms ==
  [present : {mandatory_fields \cup lookups}
             \cup {(mandatory_fields \cup lookups) \ {f} : f \in mandatory_fields \cup lookups},
   expected_dt : Times, strict_dt : Times]

\* FormErrors without the 24 hours between now and the strict deadline
FormErrorsAnyStrict(form) ==
  \/ ~(mandatory_fields \subseteq form.present)
  \/ form.expected_dt >= form.strict_dt
  \/ ~(lookups \subseteq form.present)

\* what makes _process_final_form_submission and submit_manual_job return
\* before they write: the errors list, then a lookup that fails
FormErrors(form) ==
  \/ ~(mandatory_fields \subseteq form.present)
  \/ /\ {"expected_deadline", "strict_deadline"} \subseteq form.present
     /\ \/ form.strict_dt < now + MIN_STRICT_LEAD
        \/ form.expected_dt >= form.strict_dt
  \/ ~(lookups \subseteq form.present)

\* final_job_form, POST, with _process_final_form_submission
final_job_form(j, form) ==
  /\ jobs[j].exists
  /\ IF jobs[j].status \notin {"draft", "pending"}
     THEN resp' = Response("final_job_form", j, "already_finalized") /\ UNCHANGED store
     ELSE IF FormErrors(form)
     THEN resp' = Response("final_job_form", j, "errors") /\ UNCHANGED store
     ELSE /\ JobLogRoom(1)
          /\ jobs' = [jobs EXCEPT ![j] =
               [jobs[j] EXCEPT !.summary = @ \cup {"word_count"},
                               !.expected_deadline = form.expected_dt,
                               !.status = "unallocated"]]
          /\ JobActionLog' = Append(JobActionLog, LogJob(j, "final_form_submitted"))
          /\ resp' = Response("final_job_form", j, "ok")
          /\ UNCHANGED <<allocs, versions, AllocationActionLog>>
  /\ UNCHANGED <<now, reqs, documents>>

\* submit_manual_job
submit_manual_job(j, form) ==
  /\ IF jobs[j].exists \/ FormErrors(form)
     THEN resp' = Response("submit_manual_job", j, "errors") /\ UNCHANGED store
     ELSE /\ JobLogRoom(1)
          /\ jobs' = [jobs EXCEPT ![j] =
               [NewJob EXCEPT !.exists = TRUE, !.status = "unallocated",
                              !.job_creation_method = "manual",
                              !.summary = {"topic", "word_count"},
                              !.expected_deadline = form.expected_dt]]
          /\ JobActionLog' = Append(JobActionLog, LogJob(j, "created"))
          /\ resp' = Response("submit_manual_job", j, "ok")
          /\ UNCHANGED <<allocs, versions, AllocationActionLog>>
  /\ UNCHANGED <<now, reqs, documents>>

\* a final_job_form or submit_manual_job POST arrives
form_post(r, view, j, form) ==
  /\ reqs[r] = NoRequest
  /\ view \in {"final_job_form", "submit_manual_job"}
  /\ reqs' = [reqs EXCEPT ![r] = [op |-> view, j |-> j, form |-> form]]
  /\ UNCHANGED <<store, now, resp, documents>>

\* final_job_form, POST, on the request that arrived
final_job_form_handle(r) ==
  /\ reqs[r].op = "final_job_form"
  /\ LET j == reqs[r].j
         form == reqs[r].form
     IN /\ jobs[j].exists
        /\ IF jobs[j].status \notin {"draft", "pending"}
           THEN resp' = Response("final_job_form", j, "already_finalized")
                /\ UNCHANGED store
           ELSE IF FormErrors(form)
           THEN resp' = Response("final_job_form", j, "errors") /\ UNCHANGED store
           ELSE /\ JobLogRoom(1)
                /\ jobs' = [jobs EXCEPT ![j] =
                     [jobs[j] EXCEPT !.summary = @ \cup {"word_count"},
                                     !.expected_deadline = form.expected_dt,
                                     !.status = "unallocated"]]
                /\ JobActionLog' = Append(JobActionLog, LogJob(j, "final_form_submitted"))
                /\ resp' = Response("final_job_form", j, "ok")
                /\ UNCHANGED <<allocs, versions, AllocationActionLog>>
  /\ reqs' = [reqs EXCEPT ![r] = NoRequest]
  /\ UNCHANGED <<now, documents>>

\* submit_manual_job on the request that arrived
submit_manual_job_handle(r) ==
  /\ reqs[r].op = "submit_manual_job"
  /\ LET j == reqs[r].j
         form == reqs[r].form
     IN IF jobs[j].exists \/ FormErrors(form)
        THEN resp' = Response("submit_manual_job", j, "errors") /\ UNCHANGED store
        ELSE /\ JobLogRoom(1)
             /\ jobs' = [jobs EXCEPT ![j] =
                  [NewJob EXCEPT !.exists = TRUE, !.status = "unallocated",
                                 !.job_creation_method = "manual",
                                 !.summary = {"topic", "word_count"},
                                 !.expected_deadline = form.expected_dt]]
             /\ JobActionLog' = Append(JobActionLog, LogJob(j, "created"))
             /\ resp' = Response("submit_manual_job", j, "ok")
             /\ UNCHANGED <<allocs, versions, AllocationActionLog>>
  /\ reqs' = [reqs EXCEPT ![r] = NoRequest]
  /\ UNCHANGED <<now, documents>>

\* ---------------------------------------------------------------- writer
\* QuerySet.get: exactly one match, else DoesNotExist / MultipleObjectsReturned
GetResult(matches) ==
  IF matches = {} THEN "not_found"
  ELSE IF Cardinality(matches) > 1 THEN "error" ELSE "one"

\* select_task
select_task(j, writer) ==
  LET found == AllocationsOf(j, writer, "writer") \cap ActiveAllocations(allocs, j, "writer")
  IN /\ writer \in Writers
     /\ IF GetResult(found) # "one"
        THEN resp' = Response("select_task", j, GetResult(found)) /\ UNCHANGED jobs
        ELSE IF jobs[j].status # "allocated"
        THEN resp' = Response("select_task", j, "cannot_select") /\ UNCHANGED jobs
        ELSE /\ jobs' = [jobs EXCEPT ![j].status = "in_progress",
                                     ![j].writer_selected_at = now]
             /\ resp' = Response("select_task", j, "ok")
     /\ UNCHANGED <<allocs, versions, JobActionLog, AllocationActionLog,
                    now, reqs, documents>>

\* submit_structure
submit_structure(j, writer) ==
  LET found == AllocationsOf(j, writer, "writer")
  IN /\ writer \in Writers
     /\ IF GetResult(found) # "one"
        THEN resp' = Response("submit_structure", j, GetResult(found)) /\ UNCHANGED jobs
        ELSE /\ jobs' = [jobs EXCEPT ![j].structure_submitted = TRUE]
             /\ resp' = Response("submit_structure", j, "ok")
     /\ UNCHANGED <<allocs, versions, JobActionLog, AllocationActionLog,
                    now, reqs, documents>>

\* submit_final_copy; a second 'final_copy' WriterSubmission of the same
\* writer for the Job violates unique_together and the view answers 500
submit_final_copy(j, writer) ==
  LET found == AllocationsOf(j, writer, "writer")
  IN /\ writer \in Writers
     /\ IF GetResult(found) # "one"
        THEN resp' = Response("submit_final_copy", j, GetResult(found)) /\ UNCHANGED jobs
        ELSE IF ~jobs[j].structure_submitted
        THEN resp' = Response("submit_final_copy", j, "structure_first") /\ UNCHANGED jobs
        ELSE IF writer \in jobs[j].final_copy_by
        THEN resp' = Response("submit_final_copy", j, "error") /\ UNCHANGED jobs
        ELSE /\ jobs' = [jobs EXCEPT ![j].final_copy_submitted = TRUE,
                                     ![j].final_copy_by = @ \cup {writer},
                                     ![j].status = "Review"]
             /\ resp' = Response("submit_final_copy", j, "ok")
     /\ UNCHANGED <<allocs, versions, JobActionLog, AllocationActionLog,
                    now, reqs, documents>>

\* --------------------------------------------------------------- process
\* filter(marketing_job=j, allocated_to=u, allocation_type='process',
\*        status='active').first()
ProcessAccess(j, member) ==
  AllocationsOf(j, member, "process") \cap ActiveAllocations(allocs, j, "process") # {}

\* select_process_task
select_process_task(j, member) ==
  /\ member \in ProcessMembers
  /\ jobs[j].exists
  /\ IF ~ProcessAccess(j, member)
     THEN resp' = Response("select_process_task", j, "access_denied") /\ UNCHANGED jobs
     ELSE IF jobs[j].status # "process"
     THEN resp' = Response("select_process_task", j, "already_selected") /\ UNCHANGED jobs
     ELSE /\ jobs' = [jobs EXCEPT ![j].status = "in_review"]
          /\ resp' = Response("select_process_task", j, "ok")
  /\ UNCHANGED <<allocs, versions, JobActionLog, AllocationActionLog,
                 now, reqs, documents>>

\* submit_process_file
submit_process_file(j, member) ==
  /\ member \in ProcessMembers
  /\ jobs[j].exists
  /\ IF ~ProcessAccess(j, member)
     THEN resp' = Response("submit_process_file", j, "access_denied")
          /\ UNCHANGED <<jobs, allocs>>
     ELSE IF jobs[j].status # "in_review"
     THEN resp' = Response("submit_process_file", j, "not_in_review")
          /\ UNCHANGED <<jobs, allocs>>
     ELSE /\ jobs' = [jobs EXCEPT ![j].status = "completed"]
          /\ allocs' = CloseActive(allocs, {j})
          /\ resp' = Response("submit_process_file", j, "ok")
  /\ UNCHANGED <<versions, JobActionLog, AllocationActionLog, now, reqs, documents>>

\* submit_process_file when the bulk update of the allocations raises: the
\* status is saved, the allocations stay as they are, the answer is 500
submit_process_file_interrupted(j, member) ==
  /\ member \in ProcessMembers
  /\ jobs[j].exists
  /\ ProcessAccess(j, member)
  /\ jobs[j].status = "in_review"
  /\ jobs' = [jobs EXCEPT ![j].status = "completed"]
  /\ resp' = Response("submit_process_file", j, "error")
  /\ UNCHANGED <<allocs, versions, JobActionLog, AllocationActionLog,
                 now, reqs, documents>>

\* ------------------------------------------------------------------ time
Tick ==
  /\ now < MaxTime
  /\ now' = now + 1
  /\ UNCHANGED <<store, reqs, resp, documents>>

\* ------------------------------------------------- overlapping requests
\* allocate_job up to its read of the Job
allocate_read(r, j, member, start_dt, end_dt) ==
  /\ reqs[r] = NoRequest
  /\ jobs[j].exists
  /\ reqs' = [reqs EXCEPT ![r] =
       [op |-> "allocate", j |-> j, job |-> jobs[j], member |-> member,
        start_dt |-> start_dt, end_dt |-> end_dt]]
  /\ UNCHANGED <<store, now, resp, documents>>

\* allocate_job from _process_job_allocation on, with the Job object read before
allocate_write(r) ==
  /\ reqs[r].op = "allocate"
  /\ _process_job_allocation(reqs[r].j, reqs[r].job, reqs[r].member,
                             reqs[r].start_dt, reqs[r].end_dt)
  /\ reqs' = [reqs EXCEPT ![r] = NoRequest]
  /\ UNCHANGED <<now, documents>>

\* generate_ai_summary up to its read of the Job
generate_read(r, j) ==
  /\ reqs[r] = NoRequest
  /\ jobs[j].exists
  /\ reqs' = [reqs EXCEPT ![r] = [op |-> "generate", j |-> j, job |-> jobs[j]]]
  /\ UNCHANGED <<store, now, resp, documents>>

\* generate_ai_summary from the Summarizer call on, with the Job object read before
generate_write(r, outcome) ==
  /\ reqs[r].op = "generate"
  /\ GenerateSummary(reqs[r].j, reqs[r].job, outcome)
  /\ reqs' = [reqs EXCEPT ![r] = NoRequest]
  /\ UNCHANGED <<now, documents>>

\* accept_summary up to its read of the Job (get_object_or_404)
accept_read(r, j) ==
  /\ reqs[r] = NoRequest
  /\ jobs[j].exists
  /\ reqs' = [reqs EXCEPT ![r] = [op |-> "accept", j |-> j, job |-> jobs[j]]]
  /\ UNCHANGED <<store, now, resp, documents>>

\* accept_summary from its assignments on: job.save() writes every field of
\* the Job object read before
accept_write(r) ==
  /\ reqs[r].op = "accept"
  /\ JobLogRoom(2)
  /\ jobs' = [jobs EXCEPT ![reqs[r].j] =
       [reqs[r].job EXCEPT !.ai_summary_accepted_at = now, !.status = "pending",
                           !.job_creation_method = "ai_summary"]]
  /\ JobActionLog' = JobActionLog \o <<LogJob(reqs[r].j, "ai_summary_accepted"),
                                       LogJob(reqs[r].j, "initial_form_submitted")>>
  /\ resp' = Response("accept_summary", reqs[r].j, "ok")
  /\ reqs' = [reqs EXCEPT ![r] = NoRequest]
  /\ UNCHANGED <<allocs, versions, AllocationActionLog, now, documents>>

\* submit_process_file up to marketing_job.save(update_fields=['status'])
submit_process_save(r, j, member) ==
  /\ reqs[r] = NoRequest
  /\ member \in ProcessMembers
  /\ jobs[j].exists
  /\ ProcessAccess(j, member)
  /\ jobs[j].status = "in_review"
  /\ jobs' = [jobs EXCEPT ![j].status = "completed"]
  /\ reqs' = [reqs EXCEPT ![r] = [op |-> "submit_process", j |-> j]]
  /\ UNCHANGED <<allocs, versions, JobActionLog, AllocationActionLog,
                 now, resp, documents>>

\* submit_process_close closing the process allocations only
submit_process_close_process_only(r) ==
  /\ reqs[r].op = "submit_process"
  /\ allocs' = [i \in DOMAIN allocs |->
                  IF allocs[i].allocation_type = "process"
                  THEN CloseActive(allocs, {reqs[r].j})[i] ELSE allocs[i]]
  /\ resp' = Response("submit_process_file", reqs[r].j, "ok")
  /\ reqs' = [reqs EXCEPT ![r] = NoRequest]
  /\ UNCHANGED <<jobs, versions, JobActionLog, AllocationActionLog, now, documents>>

\* submit_process_file from the bulk update of the allocations on
submit_process_close(r) ==
  /\ reqs[r].op = "submit_process"
  /\ allocs' = CloseActive(allocs, {reqs[r].j})
  /\ resp' = Response("submit_process_file", reqs[r].j, "ok")
  /\ reqs' = [reqs EXCEPT ![r] = NoRequest]
  /\ UNCHANGED <<jobs, versions, JobActionLog, AllocationActionLog, now, documents>>

\* submit_process_file when the bulk update raises: the answer is 500
submit_process_fail(r) ==
  /\ reqs[r].op = "submit_process"
  /\ resp' = Response("submit_process_file", reqs[r].j, "error")
  /\ reqs' = [reqs EXCEPT ![r] = NoRequest]
  /\ UNCHANGED <<store, now, documents>>

\* completed_jobs_allocator up to its read of the completed Jobs
reconcile_read(r) ==
  /\ reqs[r] = NoRequest
  /\ reqs' = [reqs EXCEPT ![r] = [op |-> "reconcile", ids |-> completed_job_ids(jobs)]]
  /\ UNCHANGED <<store, now, resp, documents>>

\* completed_jobs_allocator from its bulk update on
reconcile_update(r) ==
  /\ reqs[r].op = "reconcile"
  /\ allocs' = CloseActive(allocs, reqs[r].ids)
  /\ resp' = Response("completed_jobs_allocator", NoJob, "ok")
  /\ reqs' = [reqs EXCEPT ![r] = NoRequest]
  /\ UNCHANGED <<jobs, versions, JobActionLog, AllocationActionLog, now, documents>>

\* the Summarizer's reply reaches a generate_ai_summary request that passed
\* the can_regenerate_summary check
summarize(r, outcome) ==
  /\ reqs[r].op = "generate"
  /\ can_regenerate_summary(reqs[r].job)
  /\ reqs' = [reqs EXCEPT ![r] =
       [op |-> "summarized", j |-> reqs[r].j, job |-> reqs[r].job, reply |-> outcome]]
  /\ UNCHANGED <<store, now, resp, documents>>

\* generate_ai_summary refused at the can_regenerate_summary check
generate_refuse(r) ==
  /\ reqs[r].op = "generate"
  /\ ~can_regenerate_summary(reqs[r].job)
  /\ resp' = Response("generate_ai_summary", reqs[r].j, "limit")
  /\ reqs' = [reqs EXCEPT ![r] = NoRequest]
  /\ UNCHANGED <<store, now, documents>>

\* generate_ai_summary from json.loads of the reply on
generate_save(r) ==
  /\ reqs[r].op = "summarized"
  /\ GenerateSummary(reqs[r].j, reqs[r].job, reqs[r].reply)
  /\ reqs' = [reqs EXCEPT ![r] = NoRequest]
  /\ UNCHANGED <<now, documents>>

\* ----------------------------------------------------------- identifiers
SystemIDs == 0..(IdSpace - 1)
JobIDs == {"A", "B"}

\* the values random.choices can produce over the attempts of the random tier
RandomParts == [1..max_retries -> SystemIDs]

\* Job.objects.filter(system_id=system_id).count()
count(system_id) ==
  Cardinality({i \in DOMAIN documents : documents[i].system_id = system_id})

\* the first candidate whose count is 0; a count that raises is skipped like
\* a collision; None when the candidates are used up
RECURSIVE FirstFree(_, _)
FirstFree(candidates, count_raises) ==
  IF candidates = << >> THEN None
  ELSE IF ~count_raises /\ count(Head(candidates)) = 0 THEN Head(candidates)
  ELSE FirstFree(Tail(candidates), count_raises)

\* Job.generate_system_id: random tier, timestamp tier, then the UUID tier,
\* which returns its value without a count
generate_system_id(random_parts, base_timestamp, uuid4, count_raises) ==
  LET random_id == FirstFree(random_parts, count_raises)
      timestamp_id ==
        FirstFree([seq \in 1..TimestampTries |->
                     (base_timestamp + (seq - 1)) % IdSpace], count_raises)
  IN IF random_id # None THEN random_id
     ELSE IF timestamp_id # None THEN timestamp_id
     ELSE uuid4

\* what Job.generate_system_id can return on the present documents, over the
\* values of random.choices, time.time and uuid.uuid4 and over the count
\* queries succeeding or raising
ReturnedIds ==
  {generate_system_id(random_parts, base_timestamp, uuid4, count_raises) :
     random_parts \in RandomParts, base_timestamp \in SystemIDs,
     uuid4 \in SystemIDs, count_raises \in BOOLEAN}

\* the JsonResponse of save_initial_form; retry tells 'Job created
\* successfully' of the retry from 'Initial form saved successfully'
CreateResponse(result, retry) ==
  [op |-> "save_initial_form", job |-> NoJob, result |-> result, retry |-> retry]

\* DuplicateKeys with unique=True on system_id alone
DuplicateKeysSystemIdOnly(docs, doc) ==
  {key \in {"system_id"} : \E i \in DOMAIN docs : docs[i][key] = doc[key]}

\* the unique indexes of marketing_jobs that an insert of doc would violate
DuplicateKeys(docs, doc) ==
  {key \in {"system_id", "job_id"} : \E i \in DOMAIN docs : docs[i][key] = doc[key]}

\* save_initial_form without system_id, up to
\* system_id = Job.generate_system_id()
create_generate(r, job_id, system_id) ==
  /\ reqs[r] = NoRequest
  /\ system_id \in ReturnedIds
  /\ reqs' = [reqs EXCEPT ![r] =
       [op |-> "create", job_id |-> job_id, retry |-> FALSE, system_id |-> system_id]]
  /\ UNCHANGED <<store, now, resp, documents>>

\* Job.objects.create and what follows: the 'created' log entry and the
\* answer, or the handling of IntegrityError (the index named in the error
\* message is any of those violated; one retry on system_id)
create_insert(r) ==
  /\ reqs[r].op = "create"
  /\ LET doc == [system_id |-> reqs[r].system_id, job_id |-> reqs[r].job_id]
         duplicate == DuplicateKeys(documents, doc)
     IN IF duplicate = {}
        THEN /\ JobLogRoom(1)
             /\ documents' = Append(documents, doc)
             /\ JobActionLog' = Append(JobActionLog, LogJob(doc.system_id, "created"))
             /\ resp' = CreateResponse("ok", reqs[r].retry)
             /\ reqs' = [reqs EXCEPT ![r] = NoRequest]
        ELSE \E key \in duplicate :
             IF key = "system_id" /\ ~reqs[r].retry
             THEN /\ reqs' = [reqs EXCEPT ![r] = [op |-> "retry", job_id |-> reqs[r].job_id]]
                  /\ UNCHANGED <<documents, JobActionLog, resp>>
             ELSE /\ resp' = CreateResponse("error", reqs[r].retry)
                  /\ reqs' = [reqs EXCEPT ![r] = NoRequest]
                  /\ UNCHANGED <<documents, JobActionLog>>
  /\ UNCHANGED <<jobs, allocs, versions, AllocationActionLog, now>>

\* save_initial_form after a duplicate system_id:
\* new_system_id = Job.generate_system_id()
retry_generate(r, system_id) ==
  /\ reqs[r].op = "retry"
  /\ system_id \in ReturnedIds
  /\ reqs' = [reqs EXCEPT ![r] =
       [op |-> "create", job_id |-> reqs[r].job_id, retry |-> TRUE,
        system_id |-> system_id]]
  /\ UNCHANGED <<store, now, resp, documents>>

\* save_initial_form with the system_id of document i: job.job_id = job_id;
\* job.save()
save_initial_form_update(i, job_id) ==
  /\ i \in DOMAIN documents
  /\ LET others == SubSeq(documents, 1, i - 1) \o SubSeq(documents, i + 1, Len(documents))
         doc == [documents[i] EXCEPT !.job_id = job_id]
     IN IF DuplicateKeys(others, doc) = {}
        THEN /\ JobLogRoom(1)
             /\ Cardinality({k \in DOMAIN JobActionLog :
                   JobActionLog[k].action = "initial_form_saved"}) < MaxSaves
             /\ documents' = [documents EXCEPT ![i] = doc]
             /\ JobActionLog' =
                  Append(JobActionLog, LogJob(doc.system_id, "initial_form_saved"))
             /\ resp' = CreateResponse("ok", FALSE)
        ELSE /\ resp' = CreateResponse("error", FALSE)
             /\ UNCHANGED <<documents, JobActionLog>>
  /\ UNCHANGED <<jobs, allocs, versions, AllocationActionLog, now, reqs>>

\* Job.generate_system_id check by check: the request keeps the loop it is in
\* (tier), the loop index (attempt), base_timestamp once it is taken, and the
\* last count query with its outcome
NoCheck == [tier |-> "none", system_id |-> None, outcome |-> "none"]

Generating(job_id, retry) ==
  [op |-> "generate", job_id |-> job_id, retry |-> retry, tier |-> "random",
   attempt |-> 0, base_timestamp |-> None, last |-> NoCheck]

\* the request once generate_system_id has returned system_id from tier
Generated(req, tier, system_id, last) ==
  [op |-> "create", job_id |-> req.job_id, retry |-> req.retry,
   system_id |-> system_id, tier |-> tier,
   base_timestamp |-> req.base_timestamp, last |-> last]

\* timestamp_id without the sequence number
timestamp_idNoSequence(base_timestamp, seq) == base_timestamp % IdSpace

\* timestamp_id of the timestamp tier for loop index seq
timestamp_id(base_timestamp, seq) ==
  IF seq = 0 THEN base_timestamp ELSE (base_timestamp + seq) % IdSpace

\* the try block around one count query on system_id: return it when the
\* count is 0, go to the next loop index when it is not or the query raises
CheckCandidate(r, system_id, raises) ==
  LET outcome == IF raises THEN "error"
                 ELSE IF count(system_id) = 0 THEN "free" ELSE "taken"
      last == [tier |-> reqs[r].tier, system_id |-> system_id, outcome |-> outcome]
  IN reqs' = [reqs EXCEPT ![r] =
       IF outcome = "free" THEN Generated(@, @.tier, system_id, last)
       ELSE [@ EXCEPT !.attempt = @ + 1, !.last = last]]

\* save_initial_form without system_id entering Job.generate_system_id
generate_begin(r, job_id) ==
  /\ reqs[r] = NoRequest
  /\ reqs' = [reqs EXCEPT ![r] = Generating(job_id, FALSE)]
  /\ UNCHANGED <<store, now, resp, documents>>

\* save_initial_form entering Job.generate_system_id again after a
\* duplicate system_id
generate_retry_begin(r) ==
  /\ reqs[r].op = "retry"
  /\ reqs' = [reqs EXCEPT ![r] = Generating(reqs[r].job_id, TRUE)]
  /\ UNCHANGED <<store, now, resp, documents>>

\* one pass of for attempt in range(max_retries)
generate_random_check(r, random_part, raises) ==
  /\ reqs[r].op = "generate"
  /\ reqs[r].tier = "random"
  /\ reqs[r].attempt < max_retries
  /\ CheckCandidate(r, random_part, raises)
  /\ UNCHANGED <<store, now, resp, documents>>

\* base_timestamp = int(time.time() * 1000) % 1000000 after the random loop
generate_timestamp_begin(r, base_timestamp) ==
  /\ reqs[r].op = "generate"
  /\ reqs[r].tier = "random"
  /\ reqs[r].attempt = max_retries
  /\ reqs' = [reqs EXCEPT ![r] =
       [@ EXCEPT !.tier = "timestamp", !.attempt = 0,
                 !.base_timestamp = base_timestamp]]
  /\ UNCHANGED <<store, now, resp, documents>>

\* one pass of for seq in range(100)
generate_timestamp_check(r, raises) ==
  /\ reqs[r].op = "generate"
  /\ reqs[r].tier = "timestamp"
  /\ reqs[r].attempt < TimestampTries
  /\ CheckCandidate(r, timestamp_id(reqs[r].base_timestamp, reqs[r].attempt), raises)
  /\ UNCHANGED <<store, now, resp, documents>>

\* return uuid_id after the timestamp loop
generate_uuid_return(r, uuid4) ==
  /\ reqs[r].op = "generate"
  /\ reqs[r].tier = "timestamp"
  /\ reqs[r].attempt = TimestampTries
  /\ reqs' = [reqs EXCEPT ![r] = Generated(@, "uuid", uuid4, @.last)]
  /\ UNCHANGED <<store, now, resp, documents>>

\* the steps Job.generate_system_id takes by itself once it is entered
GenerateSteps(r) ==
  \/ \E random_part \in SystemIDs, raises \in BOOLEAN :
       generate_random_check(r, random_part, raises)
  \/ \E base_timestamp \in SystemIDs : generate_timestamp_begin(r, base_timestamp)
  \/ \E raises \in BOOLEAN : generate_timestamp_check(r, raises)
  \/ \E uuid4 \in SystemIDs : generate_uuid_return(r, uuid4)

\* ------------------------------------------------------- superadmin edit
\* editable_fields without 'status'
editable_fieldsNoStatus ==
  {"instruction", "category", "topic", "word_count", "referencing_style",
   "writing_style", "level", "amount", "customer_id", "customer_name",
   "deadline", "software"}

\* the Job fields update_job_drop_details copies from the POST
editable_fields ==
  {"instruction", "category", "topic", "word_count", "referencing_style",
   "writing_style", "level", "amount", "status", "customer_id",
   "customer_name", "deadline", "software"}

\* request.POST.get('status') is copied as it comes; the values drawn here
\* are the statuses the views write or compare with
PostedStatuses == STATUS_CHOICES \cup {"process", "in_review"}

\* the answer of the edit with the changes it recorded for 'status'
DropResponse(j, result, changes) ==
  [op |-> "update_job_drop_details", job |-> j, result |-> result,
   changes |-> changes]

\* job_drop_details, POST, with a status in the form: update_job_drop_details
\* sets every posted field that differs and saves the Job
update_job_drop_details(j, status) ==
  /\ jobs[j].exists
  /\ IF "status" \in editable_fields /\ status # jobs[j].status
     THEN /\ jobs' = [jobs EXCEPT ![j].status = status]
          /\ resp' = DropResponse(j, "updated", <<jobs[j].status, status>>)
     ELSE /\ resp' = DropResponse(j, "no_changes", << >>)
          /\ UNCHANGED jobs
  /\ UNCHANGED <<allocs, versions, JobActionLog, AllocationActionLog, now,
                 reqs, documents>>

\* --------------------------------------------------------- specifications
\* the handlers of the intake team (marketing)
Gate ==
  \/ \E j \in Jobs : save_initial_form(j)
  \/ \E j \in Jobs, o \in SummarizerOutcomes : generate_ai_summary(j, o)
  \/ \E j \in Jobs : accept_summary(j)
  \/ \E j \in Jobs, f \in FinalForms : final_job_form(j, f)
  \/ \E j \in Jobs, f \in FinalForms : submit_manual_job(j, f)
  \/ Tick

\* intake with overlapping generate_ai_summary requests
GateConc ==
  \/ \E j \in Jobs : save_initial_form(j)
  \/ \E r \in 1..NumReqs, j \in Jobs : generate_read(r, j)
  \/ \E r \in 1..NumReqs, o \in SummarizerOutcomes : generate_write(r, o)
  \/ \E j \in Jobs : accept_summary(j)
  \/ Tick

\* the handlers that take a Job from creation to completion
Workflow ==
  \/ \E j \in Jobs : save_initial_form(j)
  \/ \E j \in Jobs, f \in FinalForms : final_job_form(j, f)
  \/ \E j \in Jobs, f \in FinalForms : submit_manual_job(j, f)
  \/ \E j \in Jobs, m \in Users, s \in Times, e \in Times : allocate_job(j, m, s, e)
  \/ \E a \in 1..MaxAllocs, w \in Writers : switch_writer(a, w)
  \/ \E j \in Jobs, w \in Writers : select_task(j, w)
  \/ \E j \in Jobs, w \in Writers : submit_structure(j, w)
  \/ \E j \in Jobs, w \in Writers : submit_final_copy(j, w)
  \/ \E j \in Jobs, m \in ProcessMembers : select_process_task(j, m)
  \/ \E j \in Jobs, m \in ProcessMembers : submit_process_file(j, m)
  \/ completed_jobs_allocator
  \/ Tick

\* allocation with overlapping allocate_job requests
WorkflowConc ==
  \/ \E j \in Jobs, f \in FinalForms : submit_manual_job(j, f)
  \/ \E r \in 1..NumReqs, j \in Jobs, m \in Users, s \in Times, e \in Times :
       allocate_read(r, j, m, s, e)
  \/ \E r \in 1..NumReqs : allocate_write(r)
  \/ Tick

\* intake with the Summarizer's reply in flight: one generate_ai_summary
\* request at a time, accept_summary free to run in between
Summary ==
  \/ \E j \in Jobs : save_initial_form(j)
  \/ \E j \in Jobs : generate_read(1, j)
  \/ \E o \in SummarizerOutcomes : summarize(1, o)
  \/ generate_refuse(1)
  \/ generate_save(1)
  \/ \E j \in Jobs : accept_summary(j)
  \/ Tick

\* the pipeline of a manual Job with the self-heal pass and a
\* submit_process_file that fails between its two writes
Reconcile ==
  \/ \E j \in Jobs, f \in FinalForms : submit_manual_job(j, f)
  \/ \E j \in Jobs, m \in Users, s \in Times, e \in Times : allocate_job(j, m, s, e)
  \/ \E j \in Jobs, w \in Writers : select_task(j, w)
  \/ \E j \in Jobs, w \in Writers : submit_structure(j, w)
  \/ \E j \in Jobs, w \in Writers : submit_final_copy(j, w)
  \/ \E j \in Jobs, m \in ProcessMembers : select_process_task(j, m)
  \/ \E j \in Jobs, m \in ProcessMembers : submit_process_file(j, m)
  \/ \E j \in Jobs, m \in ProcessMembers : submit_process_file_interrupted(j, m)
  \/ completed_jobs_allocator
  \/ Tick

\* the pipeline with completed_jobs_allocator and submit_process_file in
\* flight between their reads and their writes
ReconcileConc ==
  \/ \E j \in Jobs, f \in FinalForms : submit_manual_job(j, f)
  \/ \E j \in Jobs, m \in Users, s \in Times, e \in Times : allocate_job(j, m, s, e)
  \/ \E a \in 1..MaxAllocs, w \in Writers : switch_writer(a, w)
  \/ \E j \in Jobs, w \in Writers : select_task(j, w)
  \/ \E j \in Jobs, w \in Writers : submit_structure(j, w)
  \/ \E j \in Jobs, w \in Writers : submit_final_copy(j, w)
  \/ \E j \in Jobs, m \in ProcessMembers : select_process_task(j, m)
  \/ \E r \in 1..NumReqs, j \in Jobs, m \in ProcessMembers : submit_process_save(r, j, m)
  \/ \E r \in 1..NumReqs : submit_process_close(r)
  \/ \E r \in 1..NumReqs : submit_process_fail(r)
  \/ \E r \in 1..NumReqs : reconcile_read(r)
  \/ \E r \in 1..NumReqs : reconcile_update(r)
  \/ Tick

\* creation of Jobs, overlapping, seen at the two columns under unique=True
Identifiers ==
  \/ \E r \in 1..NumReqs, job_id \in JobIDs, system_id \in SystemIDs :
        create_generate(r, job_id, system_id)
  \/ \E r \in 1..NumReqs : create_insert(r)
  \/ \E r \in 1..NumReqs, system_id \in SystemIDs : retry_generate(r, system_id)
  \/ \E i \in 1..IdSpace, job_id \in JobIDs : save_initial_form_update(i, job_id)

\* the two forms that lead to unallocated, with the request in flight
Finalize ==
  \/ \E j \in Jobs : save_initial_form(j)
  \/ \E j \in Jobs : accept_summary(j)
  \/ \E view \in {"final_job_form", "submit_manual_job"}, j \in Jobs,
        form \in DetailedForms : form_post(1, view, j, form)
  \/ final_job_form_handle(1)
  \/ submit_manual_job_handle(1)
  \/ Tick

\* intake and allocation with an accept_summary request in flight between
\* its read of the Job and its save
Pointers ==
  \/ \E j \in Jobs : save_initial_form(j)
  \/ \E j \in Jobs : accept_read(1, j)
  \/ accept_write(1)
  \/ \E j \in Jobs, f \in FinalForms : final_job_form(j, f)
  \/ \E j \in Jobs, m \in Users, s \in Times, e \in Times : allocate_job(j, m, s, e)
  \/ Tick

SpecGate == Init /\ [][Gate]_vars
SpecGateConc == Init /\ [][GateConc]_vars
SpecWorkflow == Init /\ [][Workflow]_vars
SpecWorkflowConc == Init /\ [][WorkflowConc]_vars
SpecSummary == Init /\ [][Summary]_vars
SpecReconcile == Init /\ [][Reconcile]_vars
SpecReconcileConc == Init /\ [][ReconcileConc]_vars
SpecIdentifiers == Init /\ [][Identifiers]_vars

\* Job creation with Job.generate_system_id taken check by check
Generation ==
  \/ \E job_id \in JobIDs : generate_begin(1, job_id)
  \/ generate_retry_begin(1)
  \/ \E random_part \in SystemIDs, raises \in BOOLEAN :
       generate_random_check(1, random_part, raises)
  \/ \E base_timestamp \in SystemIDs : generate_timestamp_begin(1, base_timestamp)
  \/ \E raises \in BOOLEAN : generate_timestamp_check(1, raises)
  \/ \E uuid4 \in SystemIDs : generate_uuid_return(1, uuid4)
  \/ create_insert(1)

\* the request thread runs on once it has entered Job.generate_system_id
SpecGeneration ==
  Init /\ [][Generation]_vars /\ WF_vars(GenerateSteps(1))

\* creation, allocation and task selection with the superadmin's edit of a Job
Drops ==
  \/ \E j \in Jobs : save_initial_form(j)
  \/ \E j \in Jobs, m \in Users, s \in Times, e \in Times : allocate_job(j, m, s, e)
  \/ \E j \in Jobs, w \in Writers : select_task(j, w)
  \/ \E j \in Jobs, status \in PostedStatuses : update_job_drop_details(j, status)

SpecDrops == Init /\ [][Drops]_vars
SpecFinalize == Init /\ [][Finalize]_vars
SpecPointers == Init /\ [][Pointers]_vars

\* ---------------------------------------------------------------- claims
Roles == {"writer", "process"}

\* the step is an allocate_job request that answered success
AllocateSucceeds ==
  resp'.op = "allocate" /\ resp'.result = "ok" /\ allocs' # allocs

\* the step is an allocate_job request that answered an error
AllocateRejected ==
  resp'.op = "allocate" /\ resp'.result # "ok"

\* the step is a generate_ai_summary request (Tick is the only other step
\* that leaves such a response in place)
GenerateStep ==
  resp'.op = "generate_ai_summary" /\ now' = now

\* the allocation a step has inserted
Inserted == allocs'[Len(allocs')]

\* C1: for every Job and role at most one allocation is active, whatever
\* sequence of allocate, reassign, writer select, final copy, process select,
\* process submit and self-heal requests has run.
C1_AtMostOneActive ==
  \A j \in Jobs, t \in Roles : Cardinality(ActiveAllocations(allocs, j, t)) <= 1

\* C2: of the allocate requests in flight for one Job and role only one
\* succeeds: a request that finishes when an active allocation of its Job and
\* role already exists is answered with an error and inserts nothing.
C2_OneConcurrentAllocateWins ==
  [][\A r \in 1..NumReqs :
       (/\ reqs[r].op = "allocate"
        /\ reqs'[r] = NoRequest
        /\ ActiveAllocations(allocs, reqs[r].j, AllocationType(reqs[r].job)) # {})
       => (resp'.result # "ok" /\ allocs' = allocs)]_vars

\* C3: completed and cancelled are terminal: no step changes the status of a
\* Job that has one of them.
C3_TerminalStatus ==
  [][\A j \in Jobs :
       (jobs[j].exists /\ jobs[j].status \in {"completed", "cancelled"})
       => jobs'[j].status = jobs[j].status]_vars

\* C4: an allocation is inserted only when the Job is assignable for its role
\* (unallocated for a writer, Review for process) and no allocation of that
\* Job and role is active; so a second allocate in a row is rejected.
C4_AllocateOnlyWhenAssignable ==
  [][Len(allocs') > Len(allocs) =>
       LET j == Inserted.marketing_job
           t == Inserted.allocation_type
       IN /\ t = "writer" => jobs[j].status = "unallocated"
          /\ t = "process" => jobs[j].status = "Review"
          /\ ActiveAllocations(allocs, j, t) = {}]_vars

C6_WindowValidation ==
  [][/\ AllocateSucceeds =>
          LET a == Inserted
              deadline == jobs[a.marketing_job].expected_deadline
          IN /\ a.start_date_time >= now
             /\ a.end_date_time > a.start_date_time
             /\ deadline # None => a.end_date_time <= deadline
     /\ AllocateRejected => UNCHANGED store]_vars

\* an allocate on an assignable Job was rejected for its window, after time
\* has passed, and nothing was inserted
C6_RejectedWindow ==
  /\ resp.op = "allocate"
  /\ resp.result \in {"start_in_past", "end_not_after_start", "end_after_deadline"}
  /\ now > 0
  /\ jobs[resp.job].status = "unallocated"
  /\ jobs[resp.job].allocated_to = NoUser
  /\ allocs = << >>
  /\ AllocationActionLog = << >>

\* C7: the status of every Job is one of Job.STATUS_CHOICES.
C7_StatusInChoices ==
  \A j \in Jobs : jobs[j].exists => jobs[j].status \in STATUS_CHOICES

\* C8: a Job that is not a manual Job leaves draft only for pending, and only
\* in a step in which its summary is accepted; finalize never moves a Job out
\* of draft.
C8_GateBeforePending ==
  [][\A j \in Jobs :
       (/\ jobs[j].exists
        /\ jobs[j].job_creation_method # "manual"
        /\ jobs[j].status = "draft"
        /\ jobs'[j].status # "draft")
       => /\ jobs'[j].status = "pending"
          /\ jobs'[j].ai_summary_accepted_at = now
          /\ resp'.op \in {"generate_ai_summary", "accept_summary"}]_vars

\* C9: a summary request on a Job with three versions fails; a request fails
\* when the Summarizer call fails or its reply is no JSON; a failed request
\* leaves the Job, the version records and the logs as they were, and a
\* request that succeeds is one whose reply was JSON and adds one version.
C9_RequestSummaryFailures ==
  [][GenerateStep =>
       LET j == resp'.job
       IN /\ jobs[j].ai_summary_version >= MAX_SUMMARY_VERSIONS
               => resp'.result = "limit"
          /\ resp'.result \in {"ok", "limit", "api_error", "bad_json"}
          /\ resp'.result # "ok" => UNCHANGED store
          /\ resp'.result = "ok" =>
               /\ jobs'[j].ai_summary_version = jobs[j].ai_summary_version + 1
               /\ Len(versions') = Len(versions) + 1]_vars

\* a fourth summary request was refused and the Job still has three versions
C9_LimitReached ==
  /\ resp = Response("generate_ai_summary", "J1", "limit")
  /\ jobs["J1"].ai_summary_version = MAX_SUMMARY_VERSIONS
  /\ Len(versions) = MAX_SUMMARY_VERSIONS

\* the version numbers recorded for a Job, in insertion order
VersionNumbers(j) ==
  LET recs == SelectSeq(versions, LAMBDA v : v.job = j)
  IN [i \in DOMAIN recs |-> recs[i].version_number]

\* C10: a Job has as many version records as its summary version, at most
\* three, numbered 1..n without duplicates, also when requests overlap.
C10_VersionRecords ==
  \A j \in Jobs :
    /\ jobs[j].ai_summary_version <= MAX_SUMMARY_VERSIONS
    /\ Len(VersionNumbers(j)) = jobs[j].ai_summary_version
    /\ \A i \in DOMAIN VersionNumbers(j) : VersionNumbers(j)[i] = i

\* the step is the end of a generate_ai_summary request whose reply arrived
SaveStep == reqs[1].op = "summarized" /\ reqs'[1] = NoRequest

\* C11: a generate_ai_summary that succeeds reports (auto_accepted,
\* auto_redirect) = (TRUE, TRUE) when the degree it computed is 0, (TRUE, FALSE)
\* when it is not and the version it wrote is 3 or more, (FALSE, FALSE)
\* otherwise; it sets ai_summary_accepted_at (to now) in the two auto-accepted
\* cases and in no other.
C11_AutoAcceptSignals ==
  [][(SaveStep /\ resp'.result = "ok") =>
       LET j == reqs[1].j
           degree == jobs'[j].job_card_degree
           version == jobs'[j].ai_summary_version
       IN /\ resp'.degree = degree /\ resp'.version = version
          /\ <<resp'.auto_accepted, resp'.auto_redirect>> =
                IF degree = 0 THEN <<TRUE, TRUE>>
                ELSE IF version >= 3 THEN <<TRUE, FALSE>>
                ELSE <<FALSE, FALSE>>
          /\ resp'.auto_accepted => jobs'[j].ai_summary_accepted_at = now
          /\ ~resp'.auto_accepted =>
                jobs'[j].ai_summary_accepted_at = reqs[1].job.ai_summary_accepted_at]_vars

\* the third generation of an incomplete summary was auto-accepted without
\* the advance signal, after time has passed
C11_ThirdVersionAccepted ==
  /\ resp.op = "generate_ai_summary" /\ resp.result = "ok"
  /\ resp.version = 3 /\ resp.degree > 0
  /\ resp.auto_accepted /\ ~resp.auto_redirect
  /\ now > 0
  /\ jobs[resp.job].ai_summary_accepted_at = now

\* the reply's word_count is null or an empty string
WordCountEmpty(w) == w.kind = "null" \/ (w.kind = "string" /\ w.text = "")

\* the reply's word_count gives no positive number: null, the number 0, or a
\* string in which no positive number is written
WordCountUnusable(w) ==
  \/ w.kind = "null"
  \/ w.kind = "number" /\ w.n = 0
  \/ w.kind = "string" /\ \A i \in DOMAIN findall_digits(w.text) :
                             findall_digits(w.text)[i] = 0

\* the version record a step has inserted
InsertedVersion == versions'[Len(versions')]

\* the degree facts of C12 that do not depend on how word_count is counted:
\* the degree lies in 0..5 and the Job and the version record of the same
\* call carry the same degree
DegreeRecorded(j) ==
  /\ jobs'[j].job_card_degree \in 0..5
  /\ Len(versions') = Len(versions) + 1
  /\ InsertedVersion.job = j
  /\ InsertedVersion.degree = jobs'[j].job_card_degree
  /\ resp'.degree = jobs'[j].job_card_degree

C13_AcceptIdempotent ==
  [][\A j \in Jobs :
       (/\ resp = Response("accept_summary", j, "ok")
        /\ resp' = resp
        /\ now' = now)
       => /\ jobs'[j] = jobs[j]
          /\ JobActionLog' = JobActionLog]_vars

\* the step is a whole run of completed_jobs_allocator
ReconcileStep ==
  resp'.op = "completed_jobs_allocator" /\ now' = now /\ reqs' = reqs

\* allocation i belongs to a completed Job and is active
Stale(as, js, i) ==
  js[as[i].marketing_job].status = "completed" /\ as[i].status = "active"

C16_ReconcileCompletedOnly ==
  [][\A r \in 1..NumReqs :
       (reqs[r].op = "reconcile" /\ reqs'[r] = NoRequest)
       => /\ jobs' = jobs
          /\ DOMAIN allocs' = DOMAIN allocs
          /\ \A i \in DOMAIN allocs :
               allocs'[i] # allocs[i] => Stale(allocs, jobs, i)]_vars

\* C17: the step of submit_process_file that saves the status moves the Job
\* from in_review to completed; the step that answers success closes every
\* allocation of the Job that is active, writer and process, as completed
\* with completed_at = now, touches no other allocation, and leaves the Job
\* without an active allocation.
C17_SubmitClosesAllocations ==
  [][\A r \in 1..NumReqs :
       /\ (reqs[r] = NoRequest /\ reqs'[r].op = "submit_process")
          => LET j == reqs'[r].j
             IN jobs[j].status = "in_review" /\ jobs'[j].status = "completed"
       /\ (reqs[r].op = "submit_process" /\ reqs'[r] = NoRequest
                                        /\ resp'.result = "ok")
          => LET j == reqs[r].j
             IN /\ DOMAIN allocs' = DOMAIN allocs
                /\ \A i \in DOMAIN allocs :
                     allocs'[i] =
                       IF allocs[i].marketing_job = j /\ allocs[i].status = "active"
                       THEN [allocs[i] EXCEPT !.status = "completed",
                                              !.completed_at = now]
                       ELSE allocs[i]
                /\ \A t \in Roles : ActiveAllocations(allocs', j, t) = {}]_vars

\* submit_process_file has answered success on a completed Job whose writer
\* and process allocations it closed
C17_Submitted ==
  /\ resp.op = "submit_process_file" /\ resp.result = "ok"
  /\ jobs[resp.job].status = "completed"
  /\ Len(allocs) = 2
  /\ {allocs[i].allocation_type : i \in DOMAIN allocs} = Roles
  /\ \A i \in DOMAIN allocs :
       /\ allocs[i].marketing_job = resp.job
       /\ allocs[i].status = "completed"
       /\ allocs[i].completed_at = now

\* a step of switch_writer that went through: its log entry is the last one
SwitchStep(a) ==
  /\ resp'.op = "switch_writer"
  /\ Len(AllocationActionLog') = Len(AllocationActionLog) + 1
  /\ AllocationActionLog'[Len(AllocationActionLog')].allocation = a

\* C18: switch_writer on an active allocation sets the allocation's
\* allocated_to and the Job's pointer of the allocation's type (allocated_to
\* for writer, allocated_to_process for process) to the new assignee and
\* leaves everything else of the Job and of the allocations as it was: the
\* window, status = active, the Job's status, the other pointer, the number
\* of allocations; it appends exactly one 'reassigned' entry with the old
\* and the new assignee.
C18_SwitchWriterFrame ==
  [][\A a \in DOMAIN allocs :
       (SwitchStep(a) /\ allocs[a].status = "active")
       => LET j == allocs[a].marketing_job
              entry == AllocationActionLog'[Len(AllocationActionLog')]
              new_writer == entry.details[2]
          IN /\ entry.action = "reassigned"
             /\ entry.details[1] = allocs[a].allocated_to
             /\ AllocationActionLog' = Append(AllocationActionLog, entry)
             /\ allocs' = [allocs EXCEPT ![a].allocated_to = new_writer]
             /\ jobs' = IF allocs[a].allocation_type = "writer"
                        THEN [jobs EXCEPT ![j].allocated_to = new_writer]
                        ELSE [jobs EXCEPT ![j].allocated_to_process = new_writer]]_vars

\* a step in which Job.generate_system_id returns to request r
GenerateIdStep(r) ==
  reqs[r].op \in {"idle", "retry"} /\ reqs'[r].op = "create"

\* C19: the identifier Job.generate_system_id returns differs from the
\* system_id of every Job persisted at the time of the call.
C19_GeneratedIdUnused ==
  [][\A r \in 1..NumReqs :
       GenerateIdStep(r) => count(reqs'[r].system_id) = 0]_vars

\* no two persisted Jobs share a system_id or a job_id
UniqueIdentifiers ==
  \A i, k \in DOMAIN documents :
    i # k => /\ documents[i].system_id # documents[k].system_id
             /\ documents[i].job_id # documents[k].job_id

\* C20: system_id and job_id are each unique among the persisted Jobs in
\* every state, also when creations overlap; an insert that meets a duplicate
\* writes nothing, and the creation then either goes on to generate a fresh
\* system_id (save_initial_form, once) or answers with an error.
C20_UniqueUnderRace ==
  /\ []UniqueIdentifiers
  /\ [][\A r \in 1..NumReqs :
         (reqs[r].op = "create" /\ reqs'[r] # reqs[r])
         => LET doc == [system_id |-> reqs[r].system_id, job_id |-> reqs[r].job_id]
            IN IF \E i \in DOMAIN documents :
                    \/ documents[i].system_id = doc.system_id
                    \/ documents[i].job_id = doc.job_id
               THEN /\ UNCHANGED <<store, documents>>
                    /\ \/ reqs'[r].op = "retry" /\ ~reqs[r].retry /\ resp' = resp
                       \/ reqs'[r] = NoRequest /\ resp'.result = "error"
               ELSE /\ documents' = Append(documents, doc)
                    /\ resp'.result = "ok"]_vars

\* two creations got the same system_id; the second one met the duplicate,
\* generated another system_id and its Job was saved
C20_LoserRetried ==
  /\ resp.op = "save_initial_form" /\ resp.result = "ok" /\ resp.retry
  /\ Len(documents) >= 2
  /\ JobActionLog[Len(JobActionLog)] =
       LogJob(documents[Len(documents)].system_id, "created")

\* a final_job_form or submit_manual_job request is answered
FormStep ==
  reqs[1].op \in {"final_job_form", "submit_manual_job"} /\ reqs'[1] = NoRequest

OneJobEntry(j) ==
  /\ Len(JobActionLog') = Len(JobActionLog) + 1
  /\ SubSeq(JobActionLog', 1, Len(JobActionLog)) = JobActionLog
  /\ JobActionLog'[Len(JobActionLog')].job = j

\* C22: every step that changes the status of a persisted Job appends exactly
\* one JobActionLog entry about that Job, a step of allocate_job that changes
\* it appends exactly one AllocationActionLog entry besides, and both logs
\* only ever grow at the end.
C22_TransitionsLogged ==
  [][/\ \A j \in Jobs :
          (jobs[j].exists /\ jobs'[j].status # jobs[j].status)
          => /\ OneJobEntry(j)
             /\ resp'.op = "allocate"
                => /\ Len(AllocationActionLog') = Len(AllocationActionLog) + 1
                   /\ SubSeq(AllocationActionLog', 1, Len(AllocationActionLog))
                        = AllocationActionLog
     /\ Len(JobActionLog') >= Len(JobActionLog)
     /\ SubSeq(JobActionLog', 1, Len(JobActionLog)) = JobActionLog
     /\ Len(AllocationActionLog') >= Len(AllocationActionLog)
     /\ SubSeq(AllocationActionLog', 1, Len(AllocationActionLog))
          = AllocationActionLog]_vars

\* C23: submit_final_copy changes the status of a Job only when the Job is
\* in_progress; in any other status it leaves the status as it was.
C23_FinalCopyOnlyFromInProgress ==
  [][\A j \in Jobs :
       (resp'.op = "submit_final_copy" /\ resp'.job = j
          /\ jobs[j].status # "in_progress")
       => jobs'[j].status = jobs[j].status]_vars

\* C24: a generation whose degree is above 0 leaves the status of the Job as
\* it was, the third one included; generate_ai_summary moves a Job from
\* draft to pending only when the degree is 0.
C24_PendingOnlyAtDegreeZero ==
  [][\A j \in Jobs :
       (Len(versions') = Len(versions) + 1 /\ versions'[Len(versions')].job = j
          /\ versions'[Len(versions')].degree > 0)
       => jobs'[j].status = jobs[j].status]_vars

\* the step is a select_task request of a writer who holds the one active
\* writer allocation of the Job (Tick is the only other step that leaves
\* such a response in place)
SelectByHolder(j) ==
  /\ resp'.op = "select_task" /\ resp'.job = j /\ now' = now
  /\ resp'.result \notin {"not_found", "error"}

\* C25: select_task by the holder of the active writer allocation moves an
\* allocated Job to in_progress; on a Job that is already in_progress it
\* answers success and changes neither the Job nor any allocation.
C25_SelectIdempotent ==
  [][\A j \in Jobs :
       SelectByHolder(j)
       => /\ jobs[j].status = "allocated" => jobs'[j].status = "in_progress"
          /\ jobs[j].status = "in_progress"
             => resp'.result = "ok" /\ jobs' = jobs /\ allocs' = allocs]_vars

\* C26: a step of any operation other than allocate_job and switch_writer
\* leaves allocated_to and allocated_to_process of every Job as they were,
\* also when the operation saves a Job object it read before an allocation
\* was committed.
C26_PointersOnlyByAllocator ==
  [][resp'.op \notin {"allocate", "switch_writer"}
       => \A j \in Jobs :
            /\ jobs'[j].allocated_to = jobs[j].allocated_to
            /\ jobs'[j].allocated_to_process = jobs[j].allocated_to_process]_vars

\* C27: a Job whose status is Review (review), process, in_review or
\* completed has no active writer allocation, and a Job whose status is
\* completed has no active process allocation.
C27_ClosedPastStage ==
  \A j \in Jobs :
    /\ jobs[j].status \in {"Review", "review", "process", "in_review", "completed"}
       => ActiveAllocations(allocs, j, "writer") = {}
    /\ jobs[j].status = "completed"
       => ActiveAllocations(allocs, j, "process") = {}

\* the Job has an active allocation of type t whose assignee is member
ActiveFor(j, t, member) ==
  \E i \in ActiveAllocations(allocs, j, t) : allocs[i].allocated_to = member

\* C28: a Job that is allocated or in_progress has an active writer
\* allocation of the writer in allocated_to, a Job that is in process or
\* in_review has an active process allocation of the member in
\* allocated_to_process, and a Job in draft, pending or unallocated has no
\* active allocation.
C28_StatusMatchesAllocations ==
  \A j \in Jobs :
    jobs[j].exists =>
      /\ jobs[j].status \in {"allocated", "in_progress"}
         => ActiveFor(j, "writer", jobs[j].allocated_to)
      /\ jobs[j].status \in {"process", "in_review"}
         => ActiveFor(j, "process", jobs[j].allocated_to_process)
      /\ jobs[j].status \in {"draft", "pending", "unallocated"}
         => \A t \in Roles : ActiveAllocations(allocs, j, t) = {}

\* a step of Job.generate_system_id for request r
GenerationStep(r) == reqs[r].op = "generate" /\ reqs'[r] # reqs[r]

\* the step is one count query on system_id in the present tier: the value is
\* returned when no Job has it, and a collision or an error moves the loop
\* on by one
OneCheck(r, system_id) ==
  LET last == reqs'[r].last
  IN /\ last.tier = reqs[r].tier
     /\ last.system_id = system_id
     /\ last.outcome \in {"free", "taken", "error"}
     /\ last.outcome = "free" => count(system_id) = 0
     /\ last.outcome = "taken" => count(system_id) > 0
     /\ IF last.outcome = "free"
        THEN /\ reqs'[r].op = "create"
             /\ reqs'[r].tier = reqs[r].tier
             /\ reqs'[r].system_id = system_id
        ELSE /\ reqs'[r].op = "generate"
             /\ reqs'[r].tier = reqs[r].tier
             /\ reqs'[r].attempt = reqs[r].attempt + 1

\* the loop indexes of a running generation stay within the tiers' limits
GenerationBounded ==
  \A r \in 1..NumReqs :
    reqs[r].op = "generate" =>
      \/ reqs[r].tier = "random" /\ reqs[r].attempt \in 0..max_retries
      \/ reqs[r].tier = "timestamp" /\ reqs[r].attempt \in 0..TimestampTries

NonTerminal == PostedStatuses \ {"completed", "cancelled"}

\* some operation is possible now that leaves Job j in status
CanMoveTo(j, status) == ENABLED (Drops /\ jobs'[j].status = status)

\* C30: whatever non-terminal status a Job has, an operation is possible that
\* takes it to hold, one that takes it to query and one that takes it to
\* cancelled; and a Job in hold or query can be taken back to allocated and
\* to process.
C30_SideExitsAndReentry ==
  \A j \in Jobs :
    jobs[j].exists =>
      /\ jobs[j].status \in NonTerminal
         => \A exit \in {"hold", "query", "cancelled"} \ {jobs[j].status} :
              CanMoveTo(j, exit)
      /\ jobs[j].status \in {"hold", "query"}
         => \A back \in {"allocated", "process"} : CanMoveTo(j, back)

\* a Job that was in hold has been taken back to process by the edit
C30_ReenteredFromHold ==
  \E j \in Jobs :
    /\ resp = DropResponse(j, "updated", <<"hold", "process">>)
    /\ jobs[j].status = "process"

====
